---------------------------- MODULE Spec2Model ----------------------------
(***************************************************************************)
(* A model of the IRC transport backend of sopel                           *)
(* (src/sopel/irc/backends.py): the line framer of AsynchatBackend, the    *)
(* connection life cycle (initiate_connect, connection_made, handle_close, *)
(* connection_lost), the thread-safe irc_send and the two heartbeat jobs.  *)
(*                                                                         *)
(* Text is a sequence of code points, a chunk a sequence of bytes.  An     *)
(* optional timestamp is a set holding at most one time ({} is None).      *)
(***************************************************************************)
EXTENDS Integers, Sequences, FiniteSets, TLC

VARIABLES
    buffer,          \* self.buffer: text received and not yet framed
    last_event_at,   \* self.last_event_at ({} is None)
    last_ping_at,    \* self.last_ping_at ({} is None)
    server_timeout,  \* self.server_timeout
    ping_interval,   \* self.ping_interval, in hundredths of a time unit
    transport,       \* self.transport is not None
    connected,       \* self._connected
    scheduler,       \* self.timeout_scheduler is running
    sock,            \* the asyncio transport object: its state and close() calls
    out,             \* the bytes the transport object accepted, in order
    lost,            \* the loop has a connection_lost callback pending
    writing_lock,    \* self.writing_lock: owner thread and hold count
    pc,              \* the position of every thread of control
    local,           \* the locals of the call every thread is in
    budget,          \* calls the environment may still start
    raised,          \* exceptions that left a call of the backend: <<thread, call, what>>
    calls,           \* the callers of handle_close so far, in order
    notes,           \* the notifications the host got, in order
    now,             \* the clock (datetime.utcnow())
    stream,          \* every byte handed to data_received so far, in order
    lastData,        \* the chunk of the latest data_received call
    begun,           \* per thread, the irc_send calls begun on an open transport
    tls,             \* the backend class, its TLS policy, the server's certificate
                     \* and why the connect attempt failed
    given,           \* the server_timeout and ping_interval arguments of __init__
    plugins,         \* get_usable_plugins: the settings, what the find functions
                     \* list, the plugins still to enumerate and the ordered dict
    timers,          \* the scheduler's next run time of each job
    hasquit          \* bot.hasquit

vars == << buffer, last_event_at, last_ping_at, server_timeout, ping_interval,
           transport, connected, scheduler, sock, out, lost, writing_lock,
           pc, local, budget, raised, calls, notes, now, stream, lastData, begun, tls, given, plugins, timers, hasquit >>

-----------------------------------------------------------------------------
(* Bounds *)

\* the longest byte stream a behaviour of the framer receives
MaxStream == 4
\* the number of bytes a connection receives in the life cycle
MaxLife == 2
\* the number of times the host calls close
MaxCloses == 2
\* the number of lines a host thread sends
MaxSends == 1
\* the last instant of the clock
MaxNow == 2
\* the number of bytes of an outbound message
MsgLen == 2

-----------------------------------------------------------------------------
(* Bytes and text *)

LF == 10
CR == 13

\* The bytes of the model: LF, CR, "A", the UTF-8 lead byte 0xC3, the
\* continuation byte 0xA9 (0xC3 0xA9 is U+00E9) and 0x81, a continuation
\* byte that CP-1252 leaves undefined.
Bytes == {LF, CR, 65, 195, 169, 129}

RECURSIVE SeqsUpTo(_, _)
SeqsUpTo(S, n) ==
    IF n = 0 THEN {<<>>}
    ELSE LET shorter == SeqsUpTo(S, n - 1)
         IN  shorter \cup {Append(s, x) : s \in {t \in shorter : Len(t) = n - 1}, x \in S}

Chunks(n) == SeqsUpTo(Bytes, n) \ {<<>>}

Failed == [ok |-> FALSE, text |-> <<>>]

\* unicode(data, encoding='utf-8') on bytes below 0xE0: one-byte and two-byte
\* sequences; a lead byte without continuation, a stray continuation byte and
\* the overlong leads 0xC0 and 0xC1 raise UnicodeDecodeError.
RECURSIVE utf_8(_)
utf_8(data) ==
    IF data = <<>> THEN [ok |-> TRUE, text |-> <<>>]
    ELSE LET b == Head(data) IN
         IF b < 128
         THEN LET r == utf_8(Tail(data))
              IN  IF r.ok THEN [ok |-> TRUE, text |-> <<b>> \o r.text] ELSE Failed
         ELSE IF b >= 194 /\ b < 224 /\ Len(data) >= 2
                 /\ data[2] >= 128 /\ data[2] < 192
         THEN LET r == utf_8(Tail(Tail(data)))
              IN  IF r.ok
                  THEN [ok |-> TRUE,
                        text |-> <<(b - 192) * 64 + (data[2] - 128)>> \o r.text]
                  ELSE Failed
         ELSE Failed

\* The bytes CP-1252 leaves undefined.
cp1252_undefined == {129, 141, 143, 144, 157}

\* The code points of the CP-1252 bytes 0x80..0x9F.
cp1252_high ==
    (128 :> 8364) @@ (130 :> 8218) @@ (131 :> 402) @@ (132 :> 8222)
    @@ (133 :> 8230) @@ (134 :> 8224) @@ (135 :> 8225) @@ (136 :> 710)
    @@ (137 :> 8240) @@ (138 :> 352) @@ (139 :> 8249) @@ (140 :> 338)
    @@ (142 :> 381) @@ (145 :> 8216) @@ (146 :> 8217) @@ (147 :> 8220)
    @@ (148 :> 8221) @@ (149 :> 8226) @@ (150 :> 8211) @@ (151 :> 8212)
    @@ (152 :> 732) @@ (153 :> 8482) @@ (154 :> 353) @@ (155 :> 8250)
    @@ (156 :> 339) @@ (158 :> 382) @@ (159 :> 376)

\* unicode(data, encoding='cp1252')
cp1252(data) ==
    IF \E i \in 1..Len(data) : data[i] \in cp1252_undefined
    THEN Failed
    ELSE [ok |-> TRUE,
          text |-> [i \in 1..Len(data) |->
                      IF data[i] \in DOMAIN cp1252_high
                      THEN cp1252_high[data[i]] ELSE data[i]]]

\* unicode(data, encoding='iso8859-1'): every byte is its own code point.
iso8859_1(data) == [ok |-> TRUE, text |-> data]

\* The try/except cascade of collect_incoming_data.
decode(data) ==
    IF utf_8(data).ok THEN utf_8(data)
    ELSE IF cp1252(data).ok THEN cp1252(data)
    ELSE iso8859_1(data)

HasLF(text) == \E i \in 1..Len(text) : text[i] = LF

FirstLF(text) == CHOOSE i \in 1..Len(text) :
                    text[i] = LF /\ \A j \in 1..(i - 1) : text[j] # LF

\* str.split('\n', 1): the text before the first line feed and the text after it.
split1(text) ==
    << SubSeq(text, 1, FirstLF(text) - 1), SubSeq(text, FirstLF(text) + 1, Len(text)) >>

Note(kind, line) == [kind |-> kind, line |-> line]

\* bot.on_message(line), with the last_event_at the backend holds during the call.
Message(line, lea) == [kind |-> "on_message", line |-> line, at |-> lea]

\* collect_incoming_data: the buffer and last_event_at after the chunk.
collect_incoming_data(buf, lea, data, t) ==
    IF ~decode(data).ok
    THEN [buffer |-> buf, last_event_at |-> lea]
    ELSE [buffer |-> buf \o decode(data).text, last_event_at |-> {t}]

\* found_terminator: it reads self.buffer, strips one trailing CR, empties
\* the buffer and hands the line to bot.on_message.
found_terminator(buf) ==
    LET line == IF buf # <<>> /\ buf[Len(buf)] = CR
                THEN SubSeq(buf, 1, Len(buf) - 1) ELSE buf
    IN  [buffer |-> <<>>, line |-> line]

\* A data_received that takes the first line off the buffer and stops.
data_received_first_line(buf, lea, msgs) ==
    IF ~HasLF(buf) THEN [buffer |-> buf, notes |-> msgs]
    ELSE [buffer |-> split1(buf)[2],
          notes |-> Append(msgs, Message(found_terminator(split1(buf)[1]).line, lea))]

\* The while loop of data_received: split('\n', 1) binds the local `line` and
\* stores the remainder in self.buffer; found_terminator then works on
\* self.buffer.
RECURSIVE data_received_loop(_, _, _)
data_received_loop(buf, lea, msgs) ==
    IF ~HasLF(buf) THEN [buffer |-> buf, notes |-> msgs]
    ELSE LET rest == split1(buf)[2]
             ft   == found_terminator(rest)
         IN  data_received_loop(ft.buffer, lea, Append(msgs, Message(ft.line, lea)))

\* A data_received whose lines are dispatched under the last_event_at it
\* found, the new time being stored after the loop.
data_received_stamping_last(buf, lea, msgs, data, t) ==
    LET c == collect_incoming_data(buf, lea, data, t)
        l == data_received_loop(c.buffer, lea, msgs)
    IN  [buffer |-> l.buffer, last_event_at |-> c.last_event_at, notes |-> l.notes]

\* data_received(data) as a function of the state it reads.
data_received(buf, lea, msgs, data, t) ==
    LET c == collect_incoming_data(buf, lea, data, t)
        l == data_received_loop(c.buffer, c.last_event_at, msgs)
    IN  [buffer |-> l.buffer, last_event_at |-> c.last_event_at, notes |-> l.notes]

-----------------------------------------------------------------------------
(* Threads of control *)

Loop == "loop"      \* the asyncio event loop: connect and the protocol callbacks
Sched == "sched"    \* the thread of jobs.Scheduler: the heartbeat jobs
Hosts == {"h1", "h2"}   \* threads of the host application
Threads == {Loop, Sched} \cup Hosts

\* The bytes of the line thread t sends, tagged with their sender and position.
Msg(t) == [i \in 1..MsgLen |-> <<t, i>>]

NoLocal == [data |-> <<>>, i |-> 0, then |-> "idle", caller |-> "none"]

OnCloseCount == Cardinality({i \in 1..Len(notes) : notes[i].kind = "on_close"})

Max(S) == CHOOSE x \in S : \A y \in S : y <= x

\* __init__: server_timeout or 120
DefaultServerTimeout == 120
\* __init__: server_timeout * 0.45, in hundredths
PingFactor == 45

init_server_timeout(cfg) == IF cfg # 0 THEN cfg ELSE DefaultServerTimeout

\* An __init__ that derives ping_interval from the timeout whatever is given.
init_ping_interval_derived(cfg, timeout) == timeout * PingFactor

\* An __init__ whose default ping_interval is the whole server_timeout.
init_ping_interval_whole(cfg, timeout) == IF cfg # 0 THEN cfg * 100 ELSE timeout * 100

init_ping_interval(cfg, timeout) == IF cfg # 0 THEN cfg * 100 ELSE timeout * PingFactor

-----------------------------------------------------------------------------
(* TLS: SSLAsynchatBackend *)

\* An __init__ whose verify_ssl defaults to False.
init_verify_ssl_off(arg) == arg = "True"

\* SSLAsynchatBackend.__init__(verify_ssl=True): the policy the backend
\* keeps for what the host passed ("unset": the argument was not given).
init_verify_ssl(arg) == IF arg = "unset" THEN TRUE ELSE arg = "True"

\* An SSLContext that requires a certificate and never checks its names.
ssl_context_no_hostname(verify_ssl) ==
    IF verify_ssl
    THEN [check_hostname |-> FALSE, verify_mode |-> "CERT_REQUIRED"]
    ELSE [check_hostname |-> FALSE, verify_mode |-> "CERT_NONE"]

\* The SSLContext of SSLAsynchatBackend.initiate_connect:
\* create_default_context() requires a certificate; the hostname check
\* follows verify_ssl, and without verify_ssl the mode is CERT_NONE.
ssl_context(verify_ssl) ==
    IF verify_ssl
    THEN [check_hostname |-> TRUE, verify_mode |-> "CERT_REQUIRED"]
    ELSE [check_hostname |-> FALSE, verify_mode |-> "CERT_NONE"]

\* A server certificate: signed by a trusted CA or not, matching the
\* configured host or not, matching a CNAME alias of the host or not.
Certificates == [trusted : BOOLEAN, host : BOOLEAN, alias : BOOLEAN]

\* The handshake create_connection(ssl=ssl_context) performs, with the
\* configured host as server_hostname: the context decides, and no alias of
\* the host is tried.
handshake_ok(ctx, cert) ==
    /\ ctx.verify_mode = "CERT_REQUIRED" => cert.trusted
    /\ ctx.check_hostname => cert.host

\* The backend of a connection without TLS (AsynchatBackend).
PlainBackend ==
    [ssl |-> FALSE, arg |-> "unset", verify_ssl |-> TRUE,
     cert |-> [trusted |-> TRUE, host |-> TRUE, alias |-> FALSE],
     pid_file_path |-> FALSE, failure |-> "none"]

\* SSLAsynchatBackend for every verify_ssl argument, server certificate and
\* setting of core.pid_file_path.
SSLBackends ==
    {[ssl |-> TRUE, arg |-> a, verify_ssl |-> init_verify_ssl(a), cert |-> c,
      pid_file_path |-> p, failure |-> "none"] :
        a \in {"unset", "True", "False"}, c \in Certificates, p \in BOOLEAN}

\* create_connection completes: always without TLS, after a good handshake with it.
may_connect(t) == ~t.ssl \/ handshake_ok(ssl_context(t.verify_ssl), t.cert)

\* Why create_connection may raise: name resolution, a refused connection,
\* a handshake that fails for a reason other than the certificate, or a
\* certificate the context rejects.
connect_failures(t) ==
    {"resolve", "refused"}
    \cup (IF t.ssl THEN {"handshake"} ELSE {})
    \cup (IF ~may_connect(t) THEN {"certificate"} ELSE {})

\* The exception create_connection raises for a failure.
exception_of(cause) ==
    CASE cause = "resolve" -> "socket.gaierror"
      [] cause = "refused" -> "ConnectionRefusedError"
      [] cause = "handshake" -> "ssl.SSLError"
      [] cause = "certificate" -> "ssl.SSLCertVerificationError"

\* The exceptions that are instances of socket.error (OSError).
socket_errors ==
    {"socket.gaierror", "ConnectionRefusedError", "ssl.SSLError",
     "ssl.SSLCertVerificationError"}

\* The except clause of initiate_connect that catches the exception, and
\* the method that clause calls.
except_clause(exc) == IF exc \in socket_errors THEN "socket.error" ELSE "Exception"

except_handler(clause) ==
    CASE clause = "socket.error" -> "handle_close"
      [] clause = "Exception" -> "handle_close"

\* The notification a handler ends with: handle_close calls bot.on_close(),
\* handle_error calls bot.on_error().
handler_note(handler) == IF handler = "handle_close" THEN "on_close" ELSE "on_error"

-----------------------------------------------------------------------------
(* Plugins: sopel.plugins.enumerate_plugins and get_usable_plugins *)

\* The plugin names the find functions may come upon.
PluginNames == {"ping", "coretasks"}

\* The sources of plugins, in the order enumerate_plugins chains them:
\* find_internal_plugins, find_sopel_modules_plugins,
\* find_entry_point_plugins, then the directories: $homedir/plugins first
\* and settings.core.extra after it.
Sources == << "sopel.modules", "sopel_modules", "sopel.plugins", "homedir", "extra" >>

\* A plugin handler: its name and where it was found.
Plugin(name, source) == [name |-> name, source |-> source]

\* What one find function lists: no plugin, one, or both names.
Listings == { <<>>, << "ping" >>, << "coretasks" >>, << "ping", "coretasks" >> }

\* sopel.modules holds the core plugins and no coretasks.
InternalListings == { <<>>, << "ping" >> }

\* The handlers a find function yields for a listing.
find_plugins(listing, source) ==
    [i \in 1..Len(listing) |-> Plugin(listing[i], source)]

\* A chain with the directories first and the internal plugins last.
all_plugins_reversed(found) ==
    find_plugins(found[5], Sources[5]) \o find_plugins(found[4], Sources[4])
        \o find_plugins(found[3], Sources[3]) \o find_plugins(found[2], Sources[2])
        \o find_plugins(found[1], Sources[1])

\* itertools.chain(from_internals, from_sopel_modules, from_entry_points,
\* *from_directories)
all_plugins(found) ==
    find_plugins(found[1], Sources[1]) \o find_plugins(found[2], Sources[2])
        \o find_plugins(found[3], Sources[3]) \o find_plugins(found[4], Sources[4])
        \o find_plugins(found[5], Sources[5])

\* A status in which a name listed in enable is enabled whatever exclude says.
is_enabled_by_enable(name, enabled, disabled) ==
    (name \notin disabled /\ enabled = {}) \/ name \in enabled

\* enumerate_plugins:
\* is_enabled = name not in disabled and (not enabled or name in enabled)
is_enabled(name, enabled, disabled) ==
    name \notin disabled /\ (enabled = {} \/ name \in enabled)

\* The positions of a key in an ordered dict (a sequence of entries).
od_index(od, key) == {i \in 1..Len(od) : od[i].name = key}

\* OrderedDict construction from pairs: a new key goes to the end, a key
\* already present keeps its position and takes the new value.
od_set(od, key, value) ==
    IF od_index(od, key) = {}
    THEN Append(od, [name |-> key, plugin |-> value[1], is_enabled |-> value[2]])
    ELSE [i \in 1..Len(od) |->
            IF od[i].name = key
            THEN [name |-> key, plugin |-> value[1], is_enabled |-> value[2]]
            ELSE od[i]]

\* An ordered dict that is left in the order of insertion.
od_keep_order(od, key) == od

\* OrderedDict.move_to_end(key)
move_to_end(od, key) ==
    LET i == CHOOSE j \in od_index(od, key) : TRUE
    IN  SubSeq(od, 1, i - 1) \o SubSeq(od, i + 1, Len(od)) \o << od[i] >>

\* No call of get_usable_plugins is under way.
NoPlugins ==
    [pc |-> "none", enable |-> {}, exclude |-> {},
     found |-> << <<>>, <<>>, <<>>, <<>>, <<>> >>, todo |-> <<>>, info |-> <<>>]

\* get_usable_plugins(settings) is called: enumerate_plugins sets up its chain.
get_usable_plugins ==
    /\ plugins.pc = "idle"
    /\ plugins' = [plugins EXCEPT !.pc = "enumerate", !.todo = all_plugins(plugins.found)]
    /\ UNCHANGED << buffer, last_event_at, last_ping_at, server_timeout, ping_interval,
                    transport, connected, scheduler, sock, out, lost, writing_lock,
                    pc, local, budget, raised, calls, notes, now, stream, lastData,
                    begun, tls, given, timers, hasquit >>

\* enumerate_plugins yields the next plugin with its status, and the
\* OrderedDict takes the pair.
enumerate_plugins ==
    /\ plugins.pc = "enumerate"
    /\ plugins.todo # <<>>
    /\ LET plugin == Head(plugins.todo)
           status == is_enabled(plugin.name, plugins.enable, plugins.exclude)
       IN  plugins' = [plugins EXCEPT
                          !.todo = Tail(plugins.todo),
                          !.info = od_set(plugins.info, plugin.name, << plugin, status >>)]
    /\ UNCHANGED << buffer, last_event_at, last_ping_at, server_timeout, ping_interval,
                    transport, connected, scheduler, sock, out, lost, writing_lock,
                    pc, local, budget, raised, calls, notes, now, stream, lastData,
                    begun, tls, given, timers, hasquit >>

\* enumerate_plugins ends: "And always yield coretasks".
yield_coretasks ==
    /\ plugins.pc = "enumerate"
    /\ plugins.todo = <<>>
    /\ plugins' = [plugins EXCEPT
                      !.pc = "move",
                      !.info = od_set(plugins.info, "coretasks",
                                      << Plugin("coretasks", "sopel"), TRUE >>)]
    /\ UNCHANGED << buffer, last_event_at, last_ping_at, server_timeout, ping_interval,
                    transport, connected, scheduler, sock, out, lost, writing_lock,
                    pc, local, budget, raised, calls, notes, now, stream, lastData,
                    begun, tls, given, timers, hasquit >>

\* plugins_info.move_to_end('coretasks'); return plugins_info
return_plugins_info ==
    /\ plugins.pc = "move"
    /\ plugins' = [plugins EXCEPT
                      !.pc = "done",
                      !.info = move_to_end(plugins.info, "coretasks")]
    /\ UNCHANGED << buffer, last_event_at, last_ping_at, server_timeout, ping_interval,
                    transport, connected, scheduler, sock, out, lost, writing_lock,
                    pc, local, budget, raised, calls, notes, now, stream, lastData,
                    begun, tls, given, timers, hasquit >>

\* The values the host passes as server_timeout and ping_interval (0: not given).
ServerTimeouts == {1}
PingIntervals == {0}

\* The state AsynchatBackend.__init__ leaves.
\* @plugin.interval(5) of _send_ping and @plugin.interval(10) of _check_timeout.
PingJobInterval == 5
TimeoutJobInterval == 10

\* How long the clock of the scheduled jobs runs, and for how long data comes.
Horizon == 140
Busy == 10

\* A scheduler that has run no job yet: each job is due as soon as it starts.
NoTimers == [ping |-> 0, check |-> 0]

Init ==
    /\ buffer = <<>>
    /\ last_event_at = {}
    /\ last_ping_at = {}
    /\ \E cfg \in ServerTimeouts, pcfg \in PingIntervals :
          /\ given = [server_timeout |-> cfg, ping_interval |-> pcfg]
          /\ server_timeout = init_server_timeout(cfg)
          /\ ping_interval = init_ping_interval(pcfg, init_server_timeout(cfg))
    /\ transport = FALSE
    /\ connected = FALSE
    /\ scheduler = FALSE
    /\ sock = [state |-> "none", closes |-> 0]
    /\ out = <<>>
    /\ lost = FALSE
    /\ writing_lock = [owner |-> "none", count |-> 0]
    /\ pc = [t \in Threads |-> "idle"]
    /\ local = [t \in Threads |-> NoLocal]
    /\ budget = [connect |-> 1, drop |-> 1, error |-> 1, close |-> MaxCloses,
                 send |-> [t \in Hosts |-> MaxSends]]
    /\ raised = {}
    /\ calls = <<>>
    /\ notes = <<>>
    /\ now = 0
    /\ stream = <<>>
    /\ lastData = <<>>
    /\ begun = [t \in Threads |-> 0]
    /\ tls = PlainBackend
    /\ timers = NoTimers
    /\ hasquit = FALSE
    /\ plugins = NoPlugins

Goto(t, where) == pc' = [pc EXCEPT ![t] = where]

-----------------------------------------------------------------------------
(* handle_close, statement by statement, in thread t *)

\* A call of handle_close by `caller` begins in thread t.
call_handle_close(t, caller) ==
    /\ pc' = [pc EXCEPT ![t] = "hc_stop"]
    /\ local' = [local EXCEPT ![t] = [NoLocal EXCEPT !.caller = caller]]
    /\ calls' = Append(calls, caller)

\* self.timeout_scheduler.stop()
hc_stop(t) ==
    /\ pc[t] = "hc_stop"
    /\ scheduler' = FALSE
    /\ Goto(t, "hc_test")
    /\ UNCHANGED << buffer, last_event_at, last_ping_at, server_timeout, ping_interval,
                    transport, connected, sock, out, lost, writing_lock, local,
                    budget, raised, calls, notes, now, stream, lastData, begun, tls, given, plugins, timers, hasquit >>

\* if self.transport:
hc_test(t) ==
    /\ pc[t] = "hc_test"
    /\ Goto(t, IF transport THEN "hc_close" ELSE "hc_flag")
    /\ UNCHANGED << buffer, last_event_at, last_ping_at, server_timeout, ping_interval,
                    transport, connected, scheduler, sock, out, lost, writing_lock,
                    local, budget, raised, calls, notes, now, stream, lastData, begun, tls, given, plugins, timers, hasquit >>

\* self.transport.close(): the attribute is read again; on None the call
\* raises AttributeError, which leaves handle_close.  The transport object
\* schedules connection_lost on the loop the first time it is closed.
hc_close(t) ==
    /\ pc[t] = "hc_close"
    /\ IF transport
       THEN /\ sock' = [state |-> "closed", closes |-> sock.closes + 1]
            /\ lost' = (lost \/ sock.state = "open")
            /\ Goto(t, "hc_null")
            /\ UNCHANGED << raised, local >>
       ELSE /\ raised' = raised \cup {<<t, "handle_close", "AttributeError">>}
            /\ Goto(t, "idle")
            /\ local' = [local EXCEPT ![t] = NoLocal]
            /\ UNCHANGED << sock, lost >>
    /\ UNCHANGED << buffer, last_event_at, last_ping_at, server_timeout, ping_interval,
                    transport, connected, scheduler, out, writing_lock,
                    budget, calls, notes, now, stream, lastData, begun, tls, given, plugins, timers, hasquit >>

\* self.transport = None
hc_null(t) ==
    /\ pc[t] = "hc_null"
    /\ transport' = FALSE
    /\ Goto(t, "hc_flag")
    /\ UNCHANGED << buffer, last_event_at, last_ping_at, server_timeout, ping_interval,
                    connected, scheduler, sock, out, lost, writing_lock, local,
                    budget, raised, calls, notes, now, stream, lastData, begun, tls, given, plugins, timers, hasquit >>

\* self._connected = False
\* handle_close as it would be if closing forgot the time of the last event.
hc_flag_resetting(t) ==
    /\ pc[t] = "hc_flag"
    /\ connected' = FALSE
    /\ last_event_at' = {}
    /\ Goto(t, "hc_notify")
    /\ UNCHANGED << buffer, last_ping_at, server_timeout, ping_interval,
                    transport, scheduler, sock, out, lost, writing_lock, local,
                    budget, raised, calls, notes, now, stream, lastData, begun, tls, given, plugins, timers, hasquit >>

hc_flag(t) ==
    /\ pc[t] = "hc_flag"
    /\ connected' = FALSE
    /\ Goto(t, "hc_notify")
    /\ UNCHANGED << buffer, last_event_at, last_ping_at, server_timeout, ping_interval,
                    transport, scheduler, sock, out, lost, writing_lock, local,
                    budget, raised, calls, notes, now, stream, lastData, begun, tls, given, plugins, timers, hasquit >>

\* self.bot.on_close()
\* handle_close returning without the call of bot.on_close().
hc_notify_silent(t) ==
    /\ pc[t] = "hc_notify"
    /\ Goto(t, "idle")
    /\ local' = [local EXCEPT ![t] = NoLocal]
    /\ UNCHANGED << buffer, last_event_at, last_ping_at, server_timeout, ping_interval,
                    transport, connected, scheduler, sock, out, lost, writing_lock,
                    budget, raised, calls, notes, now, stream, lastData, begun, tls, given, plugins, timers, hasquit >>

hc_notify(t) ==
    /\ pc[t] = "hc_notify"
    /\ notes' = Append(notes, Note("on_close", <<>>))
    /\ Goto(t, "idle")
    /\ local' = [local EXCEPT ![t] = NoLocal]
    /\ UNCHANGED << buffer, last_event_at, last_ping_at, server_timeout, ping_interval,
                    transport, connected, scheduler, sock, out, lost, writing_lock,
                    budget, raised, calls, now, stream, lastData, begun, tls, given, plugins, timers, hasquit >>

handle_close(t) ==
    hc_stop(t) \/ hc_test(t) \/ hc_close(t) \/ hc_null(t) \/ hc_flag(t) \/ hc_notify(t)

-----------------------------------------------------------------------------
(* irc_send, statement by statement, in thread t *)

\* A call of irc_send(data) begins in thread t; `then` is where t goes on
\* when the call returns.
call_irc_send(t, data, then) ==
    /\ pc' = [pc EXCEPT ![t] = "is_lock"]
    /\ local' = [local EXCEPT ![t] = [NoLocal EXCEPT !.data = data, !.then = then]]

\* irc_send without its lock: every thread enters at once.
can_acquire_unlocked(t) == TRUE

\* threading.RLock: free, or already held by the thread that asks.
can_acquire(t) == writing_lock.owner \in {"none", t}

\* with self.writing_lock: (enter)
is_lock(t) ==
    /\ pc[t] = "is_lock"
    /\ can_acquire(t)
    /\ writing_lock' = [owner |-> t, count |-> writing_lock.count + 1]
    /\ Goto(t, "is_test")
    /\ UNCHANGED << buffer, last_event_at, last_ping_at, server_timeout, ping_interval,
                    transport, connected, scheduler, sock, out, lost, local,
                    budget, raised, calls, notes, now, stream, lastData, begun, tls, given, plugins, timers, hasquit >>

\* if self.transport: ... else: LOGGER.warning(...)
is_test(t) ==
    /\ pc[t] = "is_test"
    /\ Goto(t, IF transport THEN "is_call" ELSE "is_unlock")
    /\ UNCHANGED << buffer, last_event_at, last_ping_at, server_timeout, ping_interval,
                    transport, connected, scheduler, sock, out, lost, writing_lock,
                    local, budget, raised, calls, notes, now, stream, lastData, begun, tls, given, plugins, timers, hasquit >>

\* self.transport.write(data): the attribute is read again; on None the call
\* raises AttributeError.  A transport object that is closed drops the data.
is_call(t) ==
    /\ pc[t] = "is_call"
    /\ IF ~transport
       THEN /\ local' = [local EXCEPT ![t].then = "raise"]
            /\ Goto(t, "is_unlock")
       ELSE /\ local' = [local EXCEPT ![t].i = 1]
            /\ Goto(t, IF sock.state = "open" THEN "is_write" ELSE "is_unlock")
    /\ UNCHANGED << buffer, last_event_at, last_ping_at, server_timeout, ping_interval,
                    transport, connected, scheduler, sock, out, lost, writing_lock,
                    budget, raised, calls, notes, now, stream, lastData, begun, tls, given, plugins, timers, hasquit >>

\* transport.write(data) takes the bytes one after the other.
is_write(t) ==
    /\ pc[t] = "is_write"
    /\ out' = Append(out, local[t].data[local[t].i])
    /\ local' = [local EXCEPT ![t].i = @ + 1]
    /\ Goto(t, IF local[t].i = Len(local[t].data) THEN "is_unlock" ELSE "is_write")
    /\ UNCHANGED << buffer, last_event_at, last_ping_at, server_timeout, ping_interval,
                    transport, connected, scheduler, sock, lost, writing_lock,
                    budget, raised, calls, notes, now, stream, lastData, begun, tls, given, plugins, timers, hasquit >>

\* irc_send as it would be if leaving the `with` block kept the lock.
is_unlock_keeping(t) ==
    /\ pc[t] = "is_unlock"
    /\ writing_lock' = writing_lock
    /\ IF local[t].then = "raise"
       THEN IF t = Sched
            THEN /\ call_handle_close(t, "on_job_error")
                 /\ UNCHANGED raised
            ELSE /\ raised' = raised \cup {<<t, "irc_send", "AttributeError">>}
                 /\ Goto(t, "idle")
                 /\ local' = [local EXCEPT ![t] = NoLocal]
                 /\ UNCHANGED calls
       ELSE /\ Goto(t, local[t].then)
            /\ local' = [local EXCEPT ![t] = NoLocal]
            /\ UNCHANGED << raised, calls >>
    /\ UNCHANGED << buffer, last_event_at, last_ping_at, server_timeout, ping_interval,
                    transport, connected, scheduler, sock, out, lost,
                    budget, notes, now, stream, lastData, begun, tls, given, plugins, timers, hasquit >>

\* with self.writing_lock: (exit), then the return to the caller: a host
\* thread sees the exception; _send_ping goes on with its next statement, or
\* lets an exception that is not a socket.error reach the scheduler.
is_unlock(t) ==
    /\ pc[t] = "is_unlock"
    /\ writing_lock' = IF writing_lock.owner = t
                       THEN IF writing_lock.count = 1
                            THEN [owner |-> "none", count |-> 0]
                            ELSE [owner |-> t, count |-> writing_lock.count - 1]
                       ELSE writing_lock
    /\ IF local[t].then = "raise"
       THEN IF t = Sched
            THEN /\ call_handle_close(t, "on_job_error")
                 /\ UNCHANGED raised
            ELSE /\ raised' = raised \cup {<<t, "irc_send", "AttributeError">>}
                 /\ Goto(t, "idle")
                 /\ local' = [local EXCEPT ![t] = NoLocal]
                 /\ UNCHANGED calls
       ELSE /\ Goto(t, local[t].then)
            /\ local' = [local EXCEPT ![t] = NoLocal]
            /\ UNCHANGED << raised, calls >>
    /\ UNCHANGED << buffer, last_event_at, last_ping_at, server_timeout, ping_interval,
                    transport, connected, scheduler, sock, out, lost,
                    budget, notes, now, stream, lastData, begun, tls, given, plugins, timers, hasquit >>

irc_send(t) == is_lock(t) \/ is_test(t) \/ is_call(t) \/ is_write(t) \/ is_unlock(t)

-----------------------------------------------------------------------------
(* The event loop: initiate_connect and the protocol callbacks *)

\* initiate_connect up to its await of loop.create_connection
initiate_connect ==
    /\ pc[Loop] = "idle"
    /\ budget.connect > 0
    /\ budget' = [budget EXCEPT !.connect = @ - 1]
    /\ Goto(Loop, "ic_await")
    /\ UNCHANGED << buffer, last_event_at, last_ping_at, server_timeout, ping_interval,
                    transport, connected, scheduler, sock, out, lost, writing_lock,
                    local, raised, calls, notes, now, stream, lastData, begun, tls, given, plugins, timers, hasquit >>

\* connection_made, called by the transport inside create_connection:
\* self.transport = transport, then handle_connect: the scheduler is
\* started and bot.on_connect() is called.
connection_made ==
    /\ pc[Loop] = "ic_await"
    /\ may_connect(tls)
    /\ sock' = [state |-> "open", closes |-> 0]
    /\ transport' = TRUE
    /\ scheduler' = TRUE
    /\ notes' = Append(notes, Note("on_connect", <<>>))
    /\ Goto(Loop, "ic_resume")
    /\ UNCHANGED << buffer, last_event_at, last_ping_at, server_timeout, ping_interval,
                    connected, out, lost, writing_lock, local, budget, raised, calls,
                    now, stream, lastData, begun, tls, given, plugins, timers, hasquit >>

\* initiate_connect after the await: self.transport = transport,
\* self.protocol = protocol, self._connected = True
ic_resume ==
    /\ pc[Loop] = "ic_resume"
    /\ transport' = TRUE
    /\ connected' = TRUE
    /\ Goto(Loop, "idle")
    /\ UNCHANGED << buffer, last_event_at, last_ping_at, server_timeout, ping_interval,
                    scheduler, sock, out, lost, writing_lock, local, budget, raised,
                    calls, notes, now, stream, lastData, begun, tls, given, plugins, timers, hasquit >>

\* create_connection raises: the except clause that catches the exception
\* calls its handler, which is handle_close for both clauses.
ic_except ==
    /\ pc[Loop] = "ic_await"
    /\ \E cause \in connect_failures(tls) :
          /\ tls' = [tls EXCEPT !.failure = cause]
          /\ IF except_handler(except_clause(exception_of(cause))) = "handle_close"
             THEN /\ call_handle_close(Loop, "initiate_connect")
                  /\ UNCHANGED notes
             ELSE /\ notes' = Append(notes, Note("on_error", <<>>))
                  /\ Goto(Loop, "idle")
                  /\ UNCHANGED << local, calls >>
    /\ UNCHANGED << buffer, last_event_at, last_ping_at, server_timeout, ping_interval,
                    transport, connected, scheduler, sock, out, lost, writing_lock,
                    budget, raised, now, stream, lastData, begun, given, plugins, timers, hasquit >>

\* IRCProtocol.data_received -> AsynchatBackend.data_received, for a chunk
\* of the set `chunks`; the transport object reads only while it is open.
receive(chunks, limit) ==
    /\ pc[Loop] = "idle"
    /\ sock.state = "open"
    /\ \E data \in chunks :
          /\ Len(stream) + Len(data) <= limit
          /\ LET r == data_received(buffer, last_event_at, notes, data, now)
             IN  /\ buffer' = r.buffer
                 /\ last_event_at' = r.last_event_at
                 /\ notes' = r.notes
          /\ stream' = stream \o data
          /\ lastData' = data
    /\ UNCHANGED << last_ping_at, server_timeout, ping_interval, transport, connected,
                    scheduler, sock, out, lost, writing_lock, pc, local, budget,
                    raised, calls, now, begun, tls, given, plugins, timers, hasquit >>

\* The peer ends the connection: the transport object closes itself and
\* schedules connection_lost.
peer_closes ==
    /\ sock.state = "open"
    /\ budget.drop > 0
    /\ budget' = [budget EXCEPT !.drop = @ - 1]
    /\ sock' = [sock EXCEPT !.state = "closed"]
    /\ lost' = TRUE
    /\ UNCHANGED << buffer, last_event_at, last_ping_at, server_timeout, ping_interval,
                    transport, connected, scheduler, out, writing_lock, pc, local,
                    raised, calls, notes, now, stream, lastData, begun, tls, given, plugins, timers, hasquit >>

\* IRCProtocol.connection_lost -> AsynchatBackend.connection_lost -> handle_close
connection_lost ==
    /\ pc[Loop] = "idle"
    /\ lost
    /\ lost' = FALSE
    /\ call_handle_close(Loop, "connection_lost")
    /\ UNCHANGED << buffer, last_event_at, last_ping_at, server_timeout, ping_interval,
                    transport, connected, scheduler, sock, out, writing_lock,
                    budget, raised, notes, now, stream, lastData, begun, tls, given, plugins, timers, hasquit >>

-----------------------------------------------------------------------------
(* The heartbeat jobs, run by the scheduler in its own thread *)

\* _send_ping, up to its call of send_ping: TRUE when a PING is due.
\* A _send_ping that also pings when the elapsed time equals the interval.
need_ping_inclusive(conn, lea, lpa, t, interval) ==
    /\ conn
    /\ \/ lea \cup lpa = {}
       \/ /\ lea \cup lpa # {}
          /\ (t - Max(lea \cup lpa)) * 100 >= interval

\* A _check_timeout that also closes when the elapsed time equals the timeout.
check_timeout_outcome_inclusive(conn, lea, t, timeout) ==
    IF ~conn THEN "return"
    ELSE IF lea = {} THEN "TypeError"
    ELSE IF t - Max(lea) >= timeout THEN "close"
    ELSE "pass"

\* A _check_timeout whose first test is inverted: it returns on a connected
\* backend and so never closes one.
check_timeout_outcome_inverted(conn, lea, t, timeout) ==
    IF conn THEN "return"
    ELSE IF lea = {} THEN "TypeError"
    ELSE IF t - Max(lea) > timeout THEN "close"
    ELSE "pass"

need_ping(conn, lea, lpa, t, interval) ==
    /\ conn
    /\ \/ lea \cup lpa = {}
       \/ /\ lea \cup lpa # {}
          /\ (t - Max(lea \cup lpa)) * 100 > interval

\* _check_timeout: what the job does with the state it reads.
check_timeout_outcome(conn, lea, t, timeout) ==
    IF ~conn THEN "return"
    ELSE IF lea = {} THEN "TypeError"
    ELSE IF t - Max(lea) > timeout THEN "close"
    ELSE "pass"

\* The scheduler runs a job only while it is started and no other job runs.
job_may_run == scheduler /\ pc[Sched] = "idle"

\* discard_buffers(): the partial line is dropped.
discard_buffers == buffer' = <<>>

\* A tick of the _send_ping job: it returns when the connection is not
\* connected or no PING is due, and otherwise calls
\* backend.send_ping(backend.host), which goes to irc_send.
send_ping ==
    /\ job_may_run
    /\ IF need_ping(connected, last_event_at, last_ping_at, now, ping_interval)
       THEN call_irc_send(Sched, Msg(Sched), "sp_mark")
       ELSE UNCHANGED << pc, local >>
    /\ UNCHANGED << buffer, last_event_at, last_ping_at, server_timeout, ping_interval,
                    transport, connected, scheduler, sock, out, lost, writing_lock,
                    budget, raised, calls, notes, now, stream, lastData, begun, tls, given, plugins, timers, hasquit >>

\* backend.last_ping_at = datetime.datetime.utcnow()
\* _send_ping as it would be if a sent PING counted as an event.
sp_mark_as_event ==
    /\ pc[Sched] = "sp_mark"
    /\ last_ping_at' = {now}
    /\ last_event_at' = {now}
    /\ Goto(Sched, "idle")
    /\ UNCHANGED << buffer, server_timeout, ping_interval,
                    transport, connected, scheduler, sock, out, lost, writing_lock,
                    local, budget, raised, calls, notes, now, stream, lastData, begun, tls, given, plugins, timers, hasquit >>

sp_mark ==
    /\ pc[Sched] = "sp_mark"
    /\ last_ping_at' = {now}
    /\ Goto(Sched, "idle")
    /\ UNCHANGED << buffer, last_event_at, server_timeout, ping_interval,
                    transport, connected, scheduler, sock, out, lost, writing_lock,
                    local, budget, raised, calls, notes, now, stream, lastData, begun, tls, given, plugins, timers, hasquit >>

\* A tick of the _check_timeout job: it returns when the connection is not
\* connected or the timeout has not passed; on a timeout it discards the
\* buffers and closes; with last_event_at None the subtraction raises and
\* the scheduler hands the error to on_job_error.
\* backend.send_ping(backend.host) raising socket.error: the write of the
\* PING fails with an exception instead of queueing the bytes.
sp_socket_error ==
    /\ pc[Sched] = "is_call"
    /\ local[Sched].then = "sp_mark"
    /\ transport
    /\ local' = [local EXCEPT ![Sched].then = "sp_except"]
    /\ Goto(Sched, "is_unlock")
    /\ UNCHANGED << buffer, last_event_at, last_ping_at, server_timeout, ping_interval,
                    transport, connected, scheduler, sock, out, lost, writing_lock,
                    budget, raised, calls, notes, now, stream, lastData, begun, tls, given, plugins, timers, hasquit >>

\* _send_ping as it would be without its except clause: the error reaches
\* the scheduler, whose on_job_error closes the connection.
sp_except_unhandled ==
    /\ pc[Sched] = "sp_except"
    /\ call_handle_close(Sched, "on_job_error")
    /\ UNCHANGED << buffer, last_event_at, last_ping_at, server_timeout, ping_interval,
                    transport, connected, scheduler, sock, out, lost, writing_lock,
                    budget, raised, notes, now, stream, lastData, begun, tls, given, plugins, timers, hasquit >>

\* except socket.error: LOGGER.exception('Socket error on PING'), and the job
\* returns; the assignment of last_ping_at was skipped by the raise.
sp_except ==
    /\ pc[Sched] = "sp_except"
    /\ Goto(Sched, "idle")
    /\ UNCHANGED << buffer, last_event_at, last_ping_at, server_timeout, ping_interval,
                    transport, connected, scheduler, sock, out, lost, writing_lock,
                    local, budget, raised, calls, notes, now, stream, lastData, begun, tls, given, plugins, timers, hasquit >>

check_timeout ==
    /\ job_may_run
    /\ LET o == check_timeout_outcome(connected, last_event_at, now, server_timeout) IN
          \/ /\ o = "close"
             /\ discard_buffers
             /\ call_handle_close(Sched, "check_timeout")
          \/ /\ o = "TypeError"
             /\ UNCHANGED buffer
             /\ call_handle_close(Sched, "on_job_error")
          \/ /\ o \in {"return", "pass"}
             /\ UNCHANGED << buffer, pc, local, calls >>
    /\ UNCHANGED << last_event_at, last_ping_at, server_timeout, ping_interval,
                    transport, connected, scheduler, sock, out, lost, writing_lock,
                    budget, raised, notes, now, stream, lastData, begun, tls, given, plugins, timers, hasquit >>

\* The scheduler itself fails: on_scheduler_error -> handle_close.
\* The scheduler runs a job when it is started, idle, and the job's time has come.
job_due(job) == job_may_run /\ now >= timers[job]

\* _send_ping run by the scheduler every PingJobInterval seconds.
ping_job ==
    /\ job_due("ping")
    /\ timers' = [timers EXCEPT !.ping = now + PingJobInterval]
    /\ IF need_ping(connected, last_event_at, last_ping_at, now, ping_interval)
       THEN call_irc_send(Sched, Msg(Sched), "sp_mark")
       ELSE UNCHANGED << pc, local >>
    /\ UNCHANGED << buffer, last_event_at, last_ping_at, server_timeout, ping_interval,
                    transport, connected, scheduler, sock, out, lost, writing_lock,
                    budget, raised, calls, notes, now, stream, lastData, begun, tls,
                    given, plugins, hasquit >>

\* _check_timeout run by the scheduler every TimeoutJobInterval seconds.
timeout_job ==
    /\ job_due("check")
    /\ timers' = [timers EXCEPT !.check = now + TimeoutJobInterval]
    /\ LET o == check_timeout_outcome(connected, last_event_at, now, server_timeout) IN
          \/ /\ o = "close"
             /\ discard_buffers
             /\ call_handle_close(Sched, "check_timeout")
          \/ /\ o = "TypeError"
             /\ UNCHANGED buffer
             /\ call_handle_close(Sched, "on_job_error")
          \/ /\ o \in {"return", "pass"}
             /\ UNCHANGED << buffer, pc, local, calls >>
    /\ UNCHANGED << last_event_at, last_ping_at, server_timeout, ping_interval,
                    transport, connected, scheduler, sock, out, lost, writing_lock,
                    budget, raised, notes, now, stream, lastData, begun, tls,
                    given, plugins, hasquit >>

\* One second passes, between the calls and not inside one; a started
\* scheduler lets no job miss its time.
second ==
    /\ now < Horizon
    /\ \A t \in Threads : pc[t] = "idle"
    /\ scheduler => (now < timers.ping /\ now < timers.check)
    /\ now' = now + 1
    /\ UNCHANGED << buffer, last_event_at, last_ping_at, server_timeout, ping_interval,
                    transport, connected, scheduler, sock, out, lost, writing_lock,
                    pc, local, budget, raised, calls, notes, stream, lastData, begun, tls, given, plugins, timers, hasquit >>

on_scheduler_error ==
    /\ job_may_run
    /\ budget.error > 0
    /\ budget' = [budget EXCEPT !.error = @ - 1]
    /\ call_handle_close(Sched, "on_scheduler_error")
    /\ UNCHANGED << buffer, last_event_at, last_ping_at, server_timeout, ping_interval,
                    transport, connected, scheduler, sock, out, lost, writing_lock,
                    raised, notes, now, stream, lastData, begun, tls, given, plugins, timers, hasquit >>

-----------------------------------------------------------------------------
(* The host application and the clock *)

\* The host closes the connection.
host_close(t) ==
    /\ pc[t] = "idle"
    /\ budget.close > 0
    /\ budget' = [budget EXCEPT !.close = @ - 1]
    /\ call_handle_close(t, "host")
    /\ UNCHANGED << buffer, last_event_at, last_ping_at, server_timeout, ping_interval,
                    transport, connected, scheduler, sock, out, lost, writing_lock,
                    raised, notes, now, stream, lastData, begun, tls, given, plugins, timers, hasquit >>

\* A thread of the host sends a line.
host_send(t) ==
    /\ pc[t] = "idle"
    /\ budget.send[t] > 0
    /\ budget' = [budget EXCEPT !.send[t] = @ - 1]
    /\ call_irc_send(t, Msg(t), "idle")
    /\ begun' = [begun EXCEPT ![t] = IF transport /\ sock.state = "open" THEN @ + 1 ELSE @]
    /\ UNCHANGED << buffer, last_event_at, last_ping_at, server_timeout, ping_interval,
                    transport, connected, scheduler, sock, out, lost, writing_lock,
                    raised, calls, notes, now, stream, lastData, tls, given, plugins, timers, hasquit >>

tick ==
    /\ now < MaxNow
    /\ now' = now + 1
    /\ UNCHANGED << buffer, last_event_at, last_ping_at, server_timeout, ping_interval,
                    transport, connected, scheduler, sock, out, lost, writing_lock,
                    pc, local, budget, raised, calls, notes, stream, lastData, begun, tls, given, plugins, timers, hasquit >>

-----------------------------------------------------------------------------
(* Specifications *)

\* The chunks the connection receives in the life cycle.
LifeChunks == {<<65>>, <<65, LF>>}

\* The life cycle of one connection with its heartbeat: the event loop and
\* the scheduler thread.
Next ==
    \/ initiate_connect
    \/ connection_made
    \/ ic_resume
    \/ ic_except
    \/ receive(LifeChunks, MaxLife)
    \/ peer_closes
    \/ connection_lost
    \/ send_ping
    \/ sp_mark
    \/ check_timeout
    \/ on_scheduler_error
    \/ irc_send(Sched)
    \/ \E t \in {Loop, Sched} : handle_close(t)
    \/ tick

Spec == Init /\ [][Next]_vars

\* Every caller of handle_close at once: a host thread, the timeout job, the
\* scheduler's error handler and the transport's connection_lost.
NextClose ==
    \/ initiate_connect
    \/ connection_made
    \/ ic_resume
    \/ ic_except
    \/ receive(LifeChunks, MaxLife)
    \/ peer_closes
    \/ connection_lost
    \/ check_timeout
    \/ on_scheduler_error
    \/ host_close("h1")
    \/ \E t \in {Loop, Sched, "h1"} : handle_close(t)
    \/ tick

SpecClose == Init /\ [][NextClose]_vars

\* Senders racing with each other and with the close the loop makes when the
\* peer ends the connection.
NextSend ==
    \/ initiate_connect
    \/ connection_made
    \/ ic_resume
    \/ ic_except
    \/ peer_closes
    \/ connection_lost
    \/ handle_close(Loop)
    \/ \E t \in Hosts : host_send(t)
    \/ \E t \in Hosts : irc_send(t)

SpecSend == Init /\ [][NextSend]_vars

\* The state __init__ leaves, for the plain backend and every SSL backend.
InitTLS ==
    /\ buffer = <<>>
    /\ last_event_at = {}
    /\ last_ping_at = {}
    /\ given = [server_timeout |-> 0, ping_interval |-> 0]
    /\ server_timeout = init_server_timeout(0)
    /\ ping_interval = init_ping_interval(0, init_server_timeout(0))
    /\ transport = FALSE
    /\ connected = FALSE
    /\ scheduler = FALSE
    /\ sock = [state |-> "none", closes |-> 0]
    /\ out = <<>>
    /\ lost = FALSE
    /\ writing_lock = [owner |-> "none", count |-> 0]
    /\ pc = [t \in Threads |-> "idle"]
    /\ local = [t \in Threads |-> NoLocal]
    /\ budget = [connect |-> 1, drop |-> 1, error |-> 1, close |-> MaxCloses,
                 send |-> [t \in Hosts |-> MaxSends]]
    /\ raised = {}
    /\ calls = <<>>
    /\ notes = <<>>
    /\ now = 0
    /\ stream = <<>>
    /\ lastData = <<>>
    /\ begun = [t \in Threads |-> 0]
    /\ tls \in {PlainBackend} \cup SSLBackends
    /\ timers = NoTimers
    /\ hasquit = FALSE
    /\ plugins = NoPlugins

\* Connecting, with and without TLS, up to the close the loop makes when
\* the peer ends the connection.
NextTLS ==
    \/ initiate_connect
    \/ connection_made
    \/ ic_resume
    \/ ic_except
    \/ peer_closes
    \/ connection_lost
    \/ handle_close(Loop)

SpecTLS == InitTLS /\ [][NextTLS]_vars

\* The server_timeout and ping_interval arguments of __init__ (0: not given).
ServerTimeoutArgs == {0, 1}
PingIntervalArgs == {0, 1}

\* The state __init__ leaves for every pair of arguments.
InitJobs ==
    /\ buffer = <<>>
    /\ last_event_at = {}
    /\ last_ping_at = {}
    /\ \E cfg \in ServerTimeoutArgs, pcfg \in PingIntervalArgs :
          /\ given = [server_timeout |-> cfg, ping_interval |-> pcfg]
          /\ server_timeout = init_server_timeout(cfg)
          /\ ping_interval = init_ping_interval(pcfg, init_server_timeout(cfg))
    /\ transport = FALSE
    /\ connected = FALSE
    /\ scheduler = FALSE
    /\ sock = [state |-> "none", closes |-> 0]
    /\ out = <<>>
    /\ lost = FALSE
    /\ writing_lock = [owner |-> "none", count |-> 0]
    /\ pc = [t \in Threads |-> "idle"]
    /\ local = [t \in Threads |-> NoLocal]
    /\ budget = [connect |-> 1, drop |-> 1, error |-> 1, close |-> MaxCloses,
                 send |-> [t \in Hosts |-> MaxSends]]
    /\ raised = {}
    /\ calls = <<>>
    /\ notes = <<>>
    /\ now = 0
    /\ stream = <<>>
    /\ lastData = <<>>
    /\ begun = [t \in Threads |-> 0]
    /\ tls = PlainBackend
    /\ timers = NoTimers
    /\ hasquit = FALSE
    /\ plugins = NoPlugins

\* The connection with its heartbeat jobs, for every pair of arguments.
SpecJobs == InitJobs /\ [][Next]_vars

\* Before get_usable_plugins is called: every setting of core.enable and
\* core.exclude and everything the five sources may hold.
InitPlugins ==
    /\ buffer = <<>>
    /\ last_event_at = {}
    /\ last_ping_at = {}
    /\ given = [server_timeout |-> 0, ping_interval |-> 0]
    /\ server_timeout = init_server_timeout(0)
    /\ ping_interval = init_ping_interval(0, init_server_timeout(0))
    /\ transport = FALSE
    /\ connected = FALSE
    /\ scheduler = FALSE
    /\ sock = [state |-> "none", closes |-> 0]
    /\ out = <<>>
    /\ lost = FALSE
    /\ writing_lock = [owner |-> "none", count |-> 0]
    /\ pc = [t \in Threads |-> "idle"]
    /\ local = [t \in Threads |-> NoLocal]
    /\ budget = [connect |-> 1, drop |-> 1, error |-> 1, close |-> MaxCloses,
                 send |-> [t \in Hosts |-> MaxSends]]
    /\ raised = {}
    /\ calls = <<>>
    /\ notes = <<>>
    /\ now = 0
    /\ stream = <<>>
    /\ lastData = <<>>
    /\ begun = [t \in Threads |-> 0]
    /\ tls = PlainBackend
    /\ timers = NoTimers
    /\ hasquit = FALSE
    /\ \E enable \in SUBSET PluginNames, exclude \in SUBSET PluginNames,
          internal \in InternalListings, packaged \in Listings,
          entry \in Listings, homedir \in Listings, extra \in Listings :
          plugins = [pc |-> "idle", enable |-> enable, exclude |-> exclude,
                     found |-> << internal, packaged, entry, homedir, extra >>,
                     todo |-> <<>>, info |-> <<>>]

NextPlugins ==
    \/ get_usable_plugins
    \/ enumerate_plugins
    \/ yield_coretasks
    \/ return_plugins_info

SpecPlugins == InitPlugins /\ [][NextPlugins]_vars

\* A connected backend that has received nothing yet.
FramerInit ==
    /\ buffer = <<>>
    /\ last_event_at = {}
    /\ last_ping_at = {}
    /\ given = [server_timeout |-> 0, ping_interval |-> 0]
    /\ server_timeout = init_server_timeout(0)
    /\ ping_interval = init_ping_interval(0, init_server_timeout(0))
    /\ transport = TRUE
    /\ connected = TRUE
    /\ scheduler = TRUE
    /\ sock = [state |-> "open", closes |-> 0]
    /\ out = <<>>
    /\ lost = FALSE
    /\ writing_lock = [owner |-> "none", count |-> 0]
    /\ pc = [t \in Threads |-> "idle"]
    /\ local = [t \in Threads |-> NoLocal]
    /\ budget = [connect |-> 0, drop |-> 1, error |-> 1, close |-> MaxCloses,
                 send |-> [t \in Hosts |-> MaxSends]]
    /\ raised = {}
    /\ calls = <<>>
    /\ notes = <<Note("on_connect", <<>>)>>
    /\ now = 0
    /\ stream = <<>>
    /\ lastData = <<>>
    /\ begun = [t \in Threads |-> 0]
    /\ tls = PlainBackend
    /\ timers = NoTimers
    /\ hasquit = FALSE
    /\ plugins = NoPlugins

\* The framer alone: every chunking of every byte stream up to MaxStream bytes.
NextFramer == receive(Chunks(MaxStream), MaxStream)

SpecFramer == FramerInit /\ [][NextFramer]_vars

-----------------------------------------------------------------------------
(* What the claims speak of *)

\* The lines handed to bot.on_message, in order.
MessagesOf(ns) ==
    LET m == SelectSeq(ns, LAMBDA n : n.kind = "on_message")
    IN  [i \in 1..Len(m) |-> m[i].line]

\* The lines handed to bot.on_message by the step being taken.
NewMessages ==
    SubSeq(MessagesOf(notes'), Len(MessagesOf(notes)) + 1, Len(MessagesOf(notes')))

\* A line with one trailing carriage return removed.
StripCR(line) ==
    IF line # <<>> /\ line[Len(line)] = CR THEN SubSeq(line, 1, Len(line) - 1) ELSE line

\* The texts that precede each line feed of a text, in order.
RECURSIVE LinesBefore(_)
LinesBefore(text) ==
    IF ~HasLF(text) THEN <<>>
    ELSE <<split1(text)[1]>> \o LinesBefore(split1(text)[2])

\* The text that follows the last line feed of a text.
RECURSIVE AfterLastLF(_)
AfterLastLF(text) == IF ~HasLF(text) THEN text ELSE AfterLastLF(split1(text)[2])

\* The step being taken is a call of data_received.
Received == stream' # stream

\* The buffer and the decoded chunk the call of data_received works on.
Pending == buffer \o decode(lastData').text

\* The number of whole copies of thread t's line in the outbound stream.
Blocks(t) ==
    Cardinality({k \in 0..((Len(out) \div MsgLen) - 1) :
                    \A i \in 1..MsgLen : out[k * MsgLen + i] = <<t, i>>})

-----------------------------------------------------------------------------
(* The claims *)

\* C1: feeding a byte stream to data_received in chunks hands the host the
\* same lines, in the same order, as feeding the whole stream in one call.
C1_ChunkBoundaryIndependence ==
    MessagesOf(notes) = MessagesOf(data_received(<<>>, {}, <<>>, stream, now).notes)

\* C2: a call of data_received calls on_message once for every line feed of
\* (buffer + decoded chunk), in stream order, with the text that precedes
\* that line feed (less its trailing carriage return).
C2_OneMessagePerLineFeed ==
    [][Received =>
         NewMessages = [i \in 1..Len(LinesBefore(Pending)) |->
                           StripCR(LinesBefore(Pending)[i])]]_vars

\* C3: the text after the last line feed stays in the buffer when
\* data_received returns, and a line begun in an earlier read is delivered
\* whole when its line feed arrives.
C3_ResidueStaysBuffered ==
    [][Received =>
         /\ buffer' = AfterLastLF(Pending)
         /\ (buffer # <<>> /\ HasLF(Pending))
               => (NewMessages # <<>> /\ NewMessages[1] = StripCR(split1(Pending)[1]))]_vars

\* C4: a delivered line holds no line feed, and a chunk `content CR LF` or
\* `content LF` received on an empty buffer delivers content with exactly one
\* trailing carriage return removed.
C4_LineHasNoTerminator ==
    [][Received =>
         /\ \A i \in 1..Len(NewMessages) : ~HasLF(NewMessages[i])
         /\ (buffer = <<>> /\ Len(LinesBefore(Pending)) = 1 /\ AfterLastLF(Pending) = <<>>)
               => NewMessages = <<StripCR(LinesBefore(Pending)[1])>>]_vars

\* C6: two calls of close in succession by the host, on a connection that
\* was made, signal on_close once and raise nothing.
C6_CloseTwiceNotifiesOnce ==
    (notes # <<>> /\ notes[1].kind = "on_connect" /\ calls = <<"host", "host">>)
        => (OnCloseCount <= 1 /\ raised = {})

\* C7: when the timeout job closes an idle connection, close is invoked once
\* and on_close fires once, although the released transport reports
\* connection_lost.
C7_TimeoutClosesOnce ==
    (/\ calls # <<>>
     /\ calls[1] = "check_timeout"
     /\ \A i \in 2..Len(calls) : calls[i] = "connection_lost"
     /\ budget.drop = 1)
        => (Len(calls) <= 1 /\ OnCloseCount <= 1)

\* C8: however the calls of close interleave, transport.close() is called
\* at most once and on_close is signalled at most once.
C8_ConcurrentCloseReleasesOnce ==
    sock.closes <= 1 /\ OnCloseCount <= 1

\* C9: the outbound stream is a run of whole lines, each from one sender,
\* followed by the part of at most one line in progress; a line whose send
\* began on an open transport is in it once, and no line is in it more
\* often than it was sent.
C9_SendsNeverInterleave ==
    /\ \A k \in 1..Len(out) :
          /\ out[k][2] = ((k - 1) % MsgLen) + 1
          /\ out[k][1] = out[k - ((k - 1) % MsgLen)][1]
    /\ \A t \in Hosts :
          (pc[t] = "idle" /\ sock.state = "open")
              => /\ begun[t] <= Blocks(t)
                 /\ Blocks(t) <= MaxSends - budget.send[t]

\* C9 witness: h1 has written the first byte of its line and h2, which also
\* sends, waits for the lock.
C9_Witness ==
    /\ pc["h1"] = "is_write" /\ local["h1"].i = 2
    /\ pc["h2"] = "is_lock"
    /\ begun["h1"] = 1 /\ begun["h2"] = 1

\* C10: a call of irc_send that wrote nothing because it found no transport
\* returns without raising, without a notification and without a change of
\* the connection's state.
C10_SendWithoutTransportIsNoOp ==
    [][\A t \in Hosts :
          (pc[t] = "is_unlock" /\ local[t].i = 0 /\ pc'[t] # pc[t])
              => /\ raised' = raised
                 /\ notes' = notes
                 /\ out' = out
                 /\ transport' = transport
                 /\ connected' = connected
                 /\ scheduler' = scheduler
                 /\ sock' = sock]_vars

\* The notifications of one kind the host has received.
NoteCount(kind) == Cardinality({i \in 1..Len(notes) : notes[i].kind = kind})

\* The connect attempt has failed: create_connection raised.
ConnectFailed == tls.failure # "none"

\* C11: when create_connection fails (name resolution, refused connection,
\* TLS handshake, rejected certificate) nothing is raised to the caller and
\* on_connect is never signalled; once initiate_connect has returned, the
\* host has been notified exactly once through on_close or on_error, the
\* transport is null, the connection is not connected and the scheduler is
\* not running.
C11_ConnectFailureClosesOnce ==
    ConnectFailed =>
        /\ raised = {}
        /\ NoteCount("on_connect") = 0
        /\ sock.state = "none"
        /\ pc[Loop] = "idle" =>
              /\ NoteCount("on_close") + NoteCount("on_error") = 1
              /\ ~transport
              /\ ~connected
              /\ ~scheduler

\* C11 witness: a TLS handshake failed, initiate_connect has returned and
\* the host has its one on_close.
C11_Witness ==
    /\ tls.ssl
    /\ tls.failure = "handshake"
    /\ pc[Loop] = "idle"
    /\ calls = << "initiate_connect" >>
    /\ NoteCount("on_close") = 1

\* The step signals a notification of this kind to the host.
Signals(kind) ==
    /\ Len(notes') = Len(notes) + 1
    /\ notes'[Len(notes')].kind = kind

\* C12: at the moment on_connect is signalled the connection is marked
\* connected, last_event_at holds the time of the connect and the heartbeat
\* scheduler has been started.
C12_ConnectedBeforeOnConnect ==
    [][Signals("on_connect") =>
          /\ connected'
          /\ last_event_at' = {now'}
          /\ scheduler']_vars

\* C13: on_close is signalled only after the scheduler was stopped, the
\* transport released and the state set to disconnected: at the moment of
\* the signal the scheduler is not running, the transport is null and the
\* connection is not connected.
C13_OnCloseAfterTeardown ==
    [][Signals("on_close") =>
          /\ ~scheduler'
          /\ ~transport'
          /\ ~connected']_vars

\* The thread is between two statements of handle_close.
InHandleClose(t) ==
    pc[t] \in {"hc_stop", "hc_test", "hc_close", "hc_null", "hc_flag", "hc_notify"}

\* C14: the transport is non-null exactly when the connection is connected,
\* in every state the host can observe (no thread is inside handle_close).
C14_TransportIffConnected ==
    (\A t \in Threads : ~InHandleClose(t)) => (transport <=> connected)

\* C15: once on_close has been signalled, and with no fresh connect call,
\* the connection does not become connected again and the transport does
\* not become non-null again.
C15_ClosedIsTerminal ==
    [][NoteCount("on_close") >= 1 =>
          /\ connected' => connected
          /\ transport' => transport]_vars

\* initiate_connect has been called and has returned.
ConnectReturned == budget.connect = 0 /\ pc[Loop] = "idle"

\* The server's certificate is trusted and matches a CNAME alias of the
\* configured host, not the host itself.
AliasCertificate == tls.cert.trusted /\ ~tls.cert.host /\ tls.cert.alias

\* C16: with verify_ssl true and a certificate that matches a CNAME alias of
\* the host but not the host, a connect that meets no network failure
\* succeeds: the attempt does not fail on the certificate and on_connect is
\* signalled.
C16_AliasCertificateConnects ==
    (/\ tls.ssl
     /\ tls.verify_ssl
     /\ AliasCertificate
     /\ ConnectReturned
     /\ tls.failure \notin {"resolve", "refused", "handshake"})
        => /\ tls.failure = "none"
           /\ NoteCount("on_connect") = 1

\* The server's certificate matches neither the configured host nor any of
\* its CNAME aliases.
ForeignCertificate == ~tls.cert.host /\ ~tls.cert.alias

\* C17: with verify_ssl true and a certificate that matches neither the host
\* nor an alias, whatever the settings hold (pid_file_path configured or
\* not), the connection never proceeds: no transport, never connected, the
\* scheduler never started, on_connect never signalled.
C17_ForeignCertificateNeverConnects ==
    (tls.ssl /\ tls.verify_ssl /\ ForeignCertificate)
        => /\ sock.state = "none"
           /\ ~transport
           /\ ~connected
           /\ ~scheduler
           /\ NoteCount("on_connect") = 0

\* C17 witness: no pid_file_path is configured, the certificate has a
\* trusted chain and foreign names, and the attempt has ended in on_close.
C17_Witness ==
    /\ tls.ssl /\ tls.verify_ssl /\ ForeignCertificate
    /\ tls.cert.trusted
    /\ ~tls.pid_file_path
    /\ tls.failure = "certificate"
    /\ ConnectReturned
    /\ NoteCount("on_close") = 1

\* What the host has been told when initiate_connect returns from a failure
\* of this cause: the notification of the handler of the except clause that
\* catches the exception.
Observed(cause) ==
    << Note(handler_note(except_handler(except_clause(exception_of(cause)))), <<>>) >>

\* The host has been told exactly what Observed says, for every failure.
ObservedIsExact ==
    (ConnectFailed /\ ConnectReturned) => notes = Observed(tls.failure)

\* C18: what the host observes when the certificate matches neither the
\* host nor an alias differs from what it observes when the handshake fails
\* for another reason.
C18_CertificateFailureIsDistinct ==
    (/\ tls.ssl /\ tls.verify_ssl /\ ForeignCertificate
     /\ tls.failure = "certificate"
     /\ ConnectReturned)
        => notes # Observed("handshake")

\* C19: the certificate and its names go unchecked only when the host passed
\* verify_ssl=False. Without the argument the backend verifies; a
\* connection over a certificate that is untrusted or does not match the
\* host exists only with verify_ssl=False; and with verify_ssl=False the
\* context checks nothing, every certificate is accepted and no attempt
\* fails on the certificate.
C19_VerificationOffOnlyByFlag ==
    tls.ssl =>
        /\ tls.arg = "unset" => tls.verify_ssl
        /\ (sock.state # "none" /\ ~(tls.cert.trusted /\ tls.cert.host))
              => tls.arg = "False"
        /\ tls.arg = "False" =>
              /\ ssl_context(tls.verify_ssl) =
                    [check_hostname |-> FALSE, verify_mode |-> "CERT_NONE"]
              /\ may_connect(tls)
              /\ tls.failure # "certificate"

\* C19 witness: verify_ssl=False was passed, the certificate is untrusted and
\* matches neither host nor alias, and the connection is established.
C19_Witness ==
    /\ tls.ssl /\ tls.arg = "False"
    /\ ~tls.cert.trusted /\ ForeignCertificate
    /\ connected /\ transport /\ sock.state = "open"
    /\ NoteCount("on_connect") = 1

\* The scheduler has reported an error of its own or of a job.
ErrorReported ==
    \E i \in 1..Len(calls) : calls[i] \in {"on_scheduler_error", "on_job_error"}

\* C20: once the handler of a scheduler or job error has returned and no
\* close is in progress, the connection is closed: the scheduler is stopped,
\* the transport released, the state disconnected and on_close signalled;
\* the connection is never connected with no watchdog running.
C20_SchedulerErrorCloses ==
    (/\ ErrorReported
     /\ pc[Sched] = "idle"
     /\ \A t \in Threads : ~InHandleClose(t))
        => /\ ~scheduler
           /\ ~transport
           /\ ~connected
           /\ NoteCount("on_close") >= 1

\* C21: server_timeout is 120 when not given; ping_interval, kept in
\* hundredths, is 0.45 times the effective server_timeout when not given
\* (54 for 120), and a positive ping_interval is kept as given.
C21_TimeoutDefaults ==
    /\ given.server_timeout = 0 => server_timeout = 120
    /\ given.server_timeout > 0 => server_timeout = given.server_timeout
    /\ given.ping_interval = 0 => ping_interval = 45 * server_timeout
    /\ (given.ping_interval = 0 /\ server_timeout = 120) => ping_interval = 54 * 100
    /\ given.ping_interval > 0 => ping_interval = 100 * given.ping_interval

\* C21 witness: nothing was given, and the connected backend runs with a
\* timeout of 120 and a ping interval of 54.
C21_Witness ==
    /\ given = [server_timeout |-> 0, ping_interval |-> 0]
    /\ server_timeout = 120
    /\ ping_interval = 5400
    /\ connected

\* get_usable_plugins has returned its ordered dict.
PluginsReturned == plugins.pc = "done"

\* The names the five sources hold, and the sources that hold a name.
FoundNames == UNION {{plugins.found[i][k] : k \in 1..Len(plugins.found[i])} : i \in 1..5}

SourcesOf(name) ==
    {i \in 1..5 : \E k \in 1..Len(plugins.found[i]) : plugins.found[i][k] = name}

\* The source of highest priority that holds the name: extra directories,
\* then the homedir, entry points, sopel_modules, sopel.modules.
TopSource(name) == Sources[Max(SourcesOf(name))]

\* The entry the returned dict holds for a name.
InfoOf(name) == plugins.info[CHOOSE i \in od_index(plugins.info, name) : TRUE]

\* One and only one entry per name found.
OnePerName ==
    /\ \A i, j \in 1..Len(plugins.info) :
          plugins.info[i].name = plugins.info[j].name => i = j
    /\ {plugins.info[i].name : i \in 1..Len(plugins.info)} = FoundNames \cup {"coretasks"}
    /\ \A i \in 1..Len(plugins.info) : plugins.info[i].plugin.name = plugins.info[i].name

\* C22 as stated: the returned dict has one entry per name, and for every
\* name found the entry is the plugin of the highest-priority source that
\* holds the name.
C22_HighestPrioritySourceWins ==
    PluginsReturned =>
        /\ OnePerName
        /\ \A name \in FoundNames : InfoOf(name).plugin.source = TopSource(name)

\* C22 amended: the same for every name but coretasks, whose entry is never
\* taken from the five sources.
C22_HighestPrioritySourceWinsButCoretasks ==
    PluginsReturned =>
        /\ OnePerName
        /\ \A name \in FoundNames \ {"coretasks"} :
              InfoOf(name).plugin.source = TopSource(name)

\* C22 witness: ping is found in sopel.modules, as an entry point and in
\* the homedir, and the dict returned holds the homedir's.
C22_Witness ==
    /\ PluginsReturned
    /\ SourcesOf("ping") = {1, 3, 4}
    /\ InfoOf("ping").plugin = Plugin("ping", "homedir")

\* C23: in the dict get_usable_plugins returns, the coretasks entry is
\* sopel's, it is enabled and it is the last entry, whatever the sources
\* hold under that name and whatever enable and exclude say.
C23_CoretasksIsSopelsAndLast ==
    PluginsReturned =>
        LET last == plugins.info[Len(plugins.info)]
        IN  /\ last.name = "coretasks"
            /\ last.plugin = Plugin("coretasks", "sopel")
            /\ last.is_enabled
            /\ od_index(plugins.info, "coretasks") = {Len(plugins.info)}

\* C23 witness: the homedir holds a coretasks plugin, enumerated ahead of
\* the ping of an extra directory; coretasks is excluded and not among the
\* enabled; the dict returned has both entries.
C23_Witness ==
    /\ PluginsReturned
    /\ plugins.found[4] = << "coretasks" >>
    /\ plugins.found[5] = << "ping" >>
    /\ plugins.found[1] = <<>>
    /\ plugins.exclude = {"coretasks"}
    /\ plugins.enable = {"ping"}
    /\ Len(plugins.info) = 2

\* C24: a plugin other than coretasks is reported enabled exactly when its
\* name is not in exclude and enable is empty or holds the name; a name in
\* both is reported disabled.
C24_EnabledStatus ==
    \A i \in 1..Len(plugins.info) :
        LET e == plugins.info[i]
        IN  e.name # "coretasks" =>
               /\ e.is_enabled <=>
                     (/\ e.name \notin plugins.exclude
                      /\ (plugins.enable = {} \/ e.name \in plugins.enable))
               /\ (e.name \in plugins.enable /\ e.name \in plugins.exclude)
                     => ~e.is_enabled

\* C24 witness: ping is both enabled and excluded, and is reported disabled.
C24_Witness ==
    /\ "ping" \in plugins.enable
    /\ "ping" \in plugins.exclude
    /\ od_index(plugins.info, "ping") # {}
    /\ ~InfoOf("ping").is_enabled

\* A PING is due: the connection is connected, and either nothing was ever
\* received or pinged or the time since the most recent of the two strictly
\* exceeds ping_interval (kept in hundredths).
PingDue ==
    /\ connected
    /\ \/ last_event_at = {} /\ last_ping_at = {}
       \/ \E latest \in last_event_at \cup last_ping_at :
             /\ \A e \in last_event_at \cup last_ping_at : e <= latest
             /\ 100 * (now - latest) > ping_interval

\* The step is the call backend.send_ping(backend.host) of the job.
PingCalled ==
    /\ pc[Sched] = "idle"
    /\ pc'[Sched] = "is_lock"
    /\ local'[Sched].then = "sp_mark"

\* C25: a tick of the send-ping job calls send_ping with the host exactly
\* when a PING is due, and otherwise changes nothing; last_ping_at changes
\* only when that call has returned, and becomes the current time.
C25_PingExactlyWhenDue ==
    [][/\ PingCalled => (PingDue /\ local'[Sched].data = Msg(Sched))
       /\ (send_ping /\ PingDue) => PingCalled
       /\ (send_ping /\ ~PingDue) => UNCHANGED vars
       /\ (pc[Sched] = "sp_mark" /\ pc'[Sched] # "sp_mark") => last_ping_at' = {now}
       /\ last_ping_at' # last_ping_at => pc[Sched] = "sp_mark"]_vars

\* C25 witness: with ping_interval 1, data came at time 0 and the PING went
\* out at time 2, when more than the interval had passed; it is on the wire
\* and last_ping_at is the time of sending.
C25_Witness ==
    /\ given.ping_interval = 1
    /\ last_event_at = {0}
    /\ last_ping_at = {2}
    /\ out = Msg(Sched)
    /\ pc[Sched] = "idle"
    /\ connected

\* The timeout has passed: the connection is connected, data was received,
\* and the time since last_event_at strictly exceeds server_timeout.
TimedOut ==
    /\ connected
    /\ \E latest \in last_event_at : now - latest > server_timeout

\* The step is a tick of the job that goes on to close the connection.
TimeoutCloses ==
    /\ pc[Sched] = "idle"
    /\ pc'[Sched] = "hc_stop"
    /\ local'[Sched].caller = "check_timeout"

\* C26: a tick of the check-timeout job on a connection that has received
\* data closes exactly when the timeout has passed, and then the buffer is
\* emptied in the same step that starts handle_close, with nothing handed
\* to on_message; a tick that finds the connection not connected or the
\* timeout not passed changes nothing.
C26_TimeoutDiscardsThenCloses ==
    [][/\ TimeoutCloses => (TimedOut /\ buffer' = <<>> /\ notes' = notes)
       /\ (check_timeout /\ TimedOut) => TimeoutCloses
       /\ (check_timeout /\ (~connected \/ last_event_at # {}) /\ ~TimedOut)
             => UNCHANGED vars]_vars

\* C26 witness: with server_timeout 1 a partial line came at time 0; at
\* time 2 the job has emptied the buffer and has entered handle_close, and
\* the host never saw a message.
C26_Witness ==
    /\ server_timeout = 1
    /\ stream = << 65 >>
    /\ last_event_at = {0}
    /\ now = 2
    /\ buffer = <<>>
    /\ pc[Sched] = "hc_stop"
    /\ local[Sched].caller = "check_timeout"
    /\ NoteCount("on_message") = 0

\* The step is a tick of the check-timeout job that ends in handle_close:
\* through the timeout, or through on_job_error after the job raised.
TimeoutJobCloses ==
    /\ pc[Sched] = "idle"
    /\ pc'[Sched] = "hc_stop"
    /\ local'[Sched].caller \in {"check_timeout", "on_job_error"}

\* C27: on a connection that is connected and has received no data, with no
\* more than server_timeout elapsed since the connect, a tick of the
\* check-timeout job neither fails nor closes.
C27_NoTimeoutBeforeFirstData ==
    [][(/\ connected
        /\ stream = <<>>
        /\ now <= server_timeout)
          => ~TimeoutJobCloses]_vars

\* C28: the heartbeat scheduler runs only while the connection is
\* connected: it is not started before the connected state is reached and
\* it is stopped when the connection leaves that state.
C28_SchedulerOnlyWhileConnected == scheduler => connected

\* C29: when data_received has returned the buffer holds no line feed: at
\* most one partial line is pending between calls.
C29_NoLineFeedLeftInBuffer == ~HasLF(buffer)

\* C29 witness: a chunk with a line feed in its middle has been received on
\* top of a pending partial line, and data_received has returned.
C29_Witness ==
    /\ Len(stream) > Len(lastData)
    /\ Len(lastData) = 3
    /\ lastData[2] = LF
    /\ lastData[3] # LF
    /\ lastData[1] # LF
    /\ NoteCount("on_message") = 1
    /\ ~HasLF(buffer)

\* C30: a receive whose chunk decodes sets last_event_at to the current
\* time, and every line it hands to on_message is dispatched with
\* last_event_at already at that time.
C30_LastEventSetBeforeDispatch ==
    [][Received =>
          /\ decode(lastData').ok => last_event_at' = {now}
          /\ \A i \in (Len(notes) + 1)..Len(notes') :
                notes'[i].kind = "on_message" => notes'[i].at = {now}]_vars

\* C30 witness: a chunk that ends a line came at time 1, and the line was
\* dispatched with last_event_at at 1.
C30_Witness ==
    /\ stream = << 65, LF >>
    /\ lastData = stream
    /\ now = 1
    /\ last_event_at = {1}
    /\ \E i \in 1..Len(notes) : notes[i].kind = "on_message" /\ notes[i].at = {1}

\* ---------------------------------------------------------------------------
\* C31  With a clock that never goes back, last_event_at never decreases: once
\*      it is set, every step leaves it set, at the same time or a later one;
\*      no connect, receive, send, job or close resets it to absent.
C31_LastEventNeverDecreases ==
    [][last_event_at # {} =>
          /\ last_event_at' # {}
          /\ Max(last_event_at') >= Max(last_event_at)]_vars

\* Data came twice, the second time at the last clock value, and the
\* connection was closed afterwards with the time of the last event kept.
C31_Witness ==
    /\ Len(stream) = 2
    /\ lastData = <<65>>
    /\ last_event_at = {MaxNow}
    /\ now = MaxNow
    /\ ~connected
    /\ NoteCount("on_close") >= 1

\* ---------------------------------------------------------------------------
\* C32  last_event_at changes only in a step that receives a chunk which
\*      decodes: no PING or other send, no job, no clock tick and no close
\*      changes it, so a keepalive PING never postpones the timeout.
C32_OnlyReceiveChangesLastEvent ==
    [][last_event_at' # last_event_at =>
          /\ Received
          /\ decode(lastData').ok
          /\ last_event_at' = {now}]_vars

\* A PING was written at time 1 on a connection whose last event stays at 0.
C32_Witness ==
    /\ connected
    /\ last_event_at = {0}
    /\ last_ping_at = {1}
    /\ out = Msg(Sched)
    /\ pc[Sched] = "idle"

\* ---------------------------------------------------------------------------
\* The connection and its jobs, with a PING whose write may raise socket.error.
NextPingError ==
    \/ initiate_connect
    \/ connection_made
    \/ ic_resume
    \/ ic_except
    \/ receive(LifeChunks, MaxLife)
    \/ peer_closes
    \/ connection_lost
    \/ send_ping
    \/ sp_socket_error
    \/ sp_except
    \/ sp_mark
    \/ check_timeout
    \/ on_scheduler_error
    \/ irc_send(Sched)
    \/ \E t \in {Loop, Sched} : handle_close(t)
    \/ tick

SpecPingError == Init /\ [][NextPingError]_vars

\* The job is on its way out of a send_ping that raised socket.error.
InPingError ==
    \/ pc[Sched] = "sp_except"
    \/ pc[Sched] = "is_unlock" /\ local[Sched].then = "sp_except"

\* C33  A socket.error raised while _send_ping sends its PING is swallowed:
\*      the job leaves the lock, reaches its except clause and returns, and in
\*      doing so it leaves the connection connected as it was, signals
\*      nothing, calls no close, leaves the scheduler running and leaves
\*      last_ping_at at its previous value, so the next run finds the PING
\*      still due.
C33_PingSocketErrorSwallowed ==
    [][(InPingError /\ pc'[Sched] # pc[Sched]) =>
          /\ pc'[Sched] \in {"sp_except", "idle"}
          /\ connected' = connected
          /\ scheduler' = scheduler
          /\ transport' = transport
          /\ notes' = notes
          /\ calls' = calls
          /\ raised' = raised
          /\ last_ping_at' = last_ping_at
          /\ out' = out]_vars

\* The first PING of a running connection failed: the job stands in its
\* except clause, nothing was written and no PING time was recorded.
C33_Witness ==
    /\ pc[Sched] = "sp_except"
    /\ connected
    /\ scheduler
    /\ last_ping_at = {}
    /\ out = <<>>
    /\ notes = << Note("on_connect", <<>>) >>

\* ---------------------------------------------------------------------------
\* The connection and its jobs when the scheduler keeps running its jobs: the
\* clock advances, a job that is due runs, and a thread inside a job, inside
\* handle_close or inside a transport callback goes on to its next statement.
\* Nothing is assumed about the peer or about scheduler errors.
Progress ==
    /\ WF_vars(tick)
    /\ WF_vars(check_timeout)
    /\ WF_vars(sp_mark)
    /\ WF_vars(irc_send(Sched))
    /\ WF_vars(handle_close(Sched))
    /\ WF_vars(handle_close(Loop))
    /\ WF_vars(connection_lost)
    /\ WF_vars(ic_resume)

SpecLive == Init /\ [][Next]_vars /\ Progress

\* A connected connection that has received all it will ever receive, early
\* enough for the timeout to elapse on the clock.
IdleForGood ==
    /\ connected
    /\ Len(stream) = MaxLife
    /\ last_event_at # {}
    /\ Max(last_event_at) + server_timeout < MaxNow

ClosedAndSignalled == ~connected /\ NoteCount("on_close") >= 1

\* C34  A connected connection on which no more bytes arrive is eventually
\*      closed, and on_close is eventually signalled, as long as the
\*      scheduler keeps running its jobs.
C34_IdleConnectionEventuallyClosed == IdleForGood ~> ClosedAndSignalled

\* The timeout job has closed a connection that had received everything: the
\* close was called by _check_timeout and on_close has been signalled.
C34_Witness ==
    /\ Len(stream) = MaxLife
    /\ last_event_at # {}
    /\ now - Max(last_event_at) > server_timeout
    /\ calls = << "check_timeout" >>
    /\ ~connected
    /\ notes # <<>>
    /\ notes[Len(notes)].kind = "on_close"

\* ---------------------------------------------------------------------------
\* The heartbeat on the scheduler's timetable: _send_ping every
\* PingJobInterval seconds, _check_timeout every TimeoutJobInterval seconds,
\* the default ping_interval, and a link that goes idle.
ScheduleTimeoutArgs == {0, 1, 10}

InitSchedule ==
    /\ buffer = <<>>
    /\ last_event_at = {}
    /\ last_ping_at = {}
    /\ \E cfg \in ScheduleTimeoutArgs :
          /\ given = [server_timeout |-> cfg, ping_interval |-> 0]
          /\ server_timeout = init_server_timeout(cfg)
          /\ ping_interval = init_ping_interval(0, init_server_timeout(cfg))
    /\ transport = FALSE
    /\ connected = FALSE
    /\ scheduler = FALSE
    /\ sock = [state |-> "none", closes |-> 0]
    /\ out = <<>>
    /\ lost = FALSE
    /\ writing_lock = [owner |-> "none", count |-> 0]
    /\ pc = [t \in Threads |-> "idle"]
    /\ local = [t \in Threads |-> NoLocal]
    /\ budget = [connect |-> 1, drop |-> 1, error |-> 1, close |-> MaxCloses,
                 send |-> [t \in Hosts |-> MaxSends]]
    /\ raised = {}
    /\ calls = <<>>
    /\ notes = <<>>
    /\ now = 0
    /\ stream = <<>>
    /\ lastData = <<>>
    /\ begun = [t \in Threads |-> 0]
    /\ tls = PlainBackend
    /\ plugins = NoPlugins
    /\ timers = NoTimers
    /\ hasquit = FALSE

\* Data that comes during the first Busy seconds; after that the link is idle.
busy_receive == now < Busy /\ receive(LifeChunks, MaxLife)

NextSchedule ==
    \/ initiate_connect
    \/ connection_made
    \/ ic_resume
    \/ ic_except
    \/ busy_receive
    \/ ping_job
    \/ sp_mark
    \/ irc_send(Sched)
    \/ timeout_job
    \/ \E t \in {Loop, Sched} : handle_close(t)
    \/ second

SpecSchedule == InitSchedule /\ [][NextSchedule]_vars

\* A PING went out after the last data came.
PingSentSinceIdle ==
    /\ last_ping_at # {}
    /\ \A e \in last_event_at : \E p \in last_ping_at : p > e
    /\ Len(out) >= MsgLen

\* C35  With the default ping_interval and the jobs run every 5 and every 10
\*      seconds, whenever _check_timeout closes an idle connection for
\*      timeout, _send_ping has sent a PING since the last data came.
C35_PingBeforeTimeout ==
    [][TimeoutCloses => PingSentSinceIdle]_vars

\* C35 as it holds: the same, for a server_timeout that is no shorter than
\* the interval of the check-timeout job (the default of 120 among them).
C35_PingBeforeTimeoutWhenNotShort ==
    [][(TimeoutCloses /\ server_timeout >= TimeoutJobInterval) => PingSentSinceIdle]_vars

\* With the defaults, the job has closed for timeout a connection whose last
\* data came at second 9; the last PING went out after that.
C35_Witness ==
    /\ given = [server_timeout |-> 0, ping_interval |-> 0]
    /\ server_timeout = DefaultServerTimeout
    /\ last_event_at = {9}
    /\ calls = << "check_timeout" >>
    /\ PingSentSinceIdle
    /\ ~connected

\* ---------------------------------------------------------------------------
\* One connect attempt and a host that may close it at any moment after it
\* has asked for it, the moments before the transport is made included.
attempt_close == budget.connect = 0 /\ host_close("h1")

NextAttempt ==
    \/ initiate_connect
    \/ connection_made
    \/ ic_resume
    \/ ic_except
    \/ receive(LifeChunks, MaxLife)
    \/ peer_closes
    \/ connection_lost
    \/ attempt_close
    \/ \E t \in {Loop, "h1"} : handle_close(t)

SpecAttempt == Init /\ [][NextAttempt]_vars

\* The notifications a step adds, in order.
NewNotes == SubSeq(notes', Len(notes) + 1, Len(notes'))

\* C36  For a connect attempt on_connect is signalled at most once, no
\*      on_message is delivered before on_connect, and neither on_connect nor
\*      on_message is delivered once on_close has been signalled.
C36_NotificationOrder ==
    [][\A i \in 1..Len(NewNotes) :
          /\ NewNotes[i].kind = "on_connect" =>
                NoteCount("on_connect") = 0 /\ NoteCount("on_close") = 0
          /\ NewNotes[i].kind = "on_message" =>
                NoteCount("on_connect") = 1 /\ NoteCount("on_close") = 0]_vars

\* ---------------------------------------------------------------------------
\* A close made by the event loop has stopped the schedule: the loop is past
\* timeout_scheduler.stop(), inside handle_close or back from it.
LoopStoppedSchedule ==
    /\ ~scheduler
    /\ \E i \in 1..Len(calls) : calls[i] \in {"connection_lost", "initiate_connect"}
    /\ pc[Loop] # "hc_stop"

\* C37  Once a close has stopped the schedule, no heartbeat job, begun before
\*      the stop or after it, writes to the transport, updates last_ping_at
\*      or calls close again.
C37_NoJobAfterStop ==
    [][LoopStoppedSchedule =>
          /\ out' = out
          /\ last_ping_at' = last_ping_at
          /\ ~(pc[Sched] # "hc_stop" /\ pc'[Sched] = "hc_stop")]_vars

\* ---------------------------------------------------------------------------
\* Every sender at once: the on_message callback in the event loop, the
\* send-ping job in the scheduler thread and a host thread, while data is
\* received and while the loop closes the connection the peer has ended.
\* bot.on_message(line) answering: the callback, which runs in the event
\* loop inside data_received, calls irc_send; one answer per message at most.
on_message_send ==
    /\ pc[Loop] = "idle"
    /\ begun[Loop] < NoteCount("on_message")
    /\ call_irc_send(Loop, Msg(Loop), "idle")
    /\ begun' = [begun EXCEPT ![Loop] = @ + 1]
    /\ UNCHANGED << buffer, last_event_at, last_ping_at, server_timeout, ping_interval,
                    transport, connected, scheduler, sock, out, lost, writing_lock,
                    budget, raised, calls, notes, now, stream, lastData, tls, given, plugins, timers, hasquit >>

NextSenders ==
    \/ initiate_connect
    \/ connection_made
    \/ ic_resume
    \/ ic_except
    \/ receive(LifeChunks, MaxLife)
    \/ on_message_send
    \/ peer_closes
    \/ connection_lost
    \/ send_ping
    \/ sp_mark
    \/ host_send("h1")
    \/ \E t \in {Loop, Sched, "h1"} : irc_send(t)
    \/ \E t \in {Loop, Sched} : handle_close(t)

SpecSenders == Init /\ [][NextSenders]_vars

\* The positions of a thread inside irc_send, and those where it holds the lock.
InIrcSend(t) == pc[t] \in {"is_lock", "is_test", "is_call", "is_write", "is_unlock"}
HoldsLock(t) == pc[t] \in {"is_test", "is_call", "is_write", "is_unlock"}

\* C38  Sending never deadlocks: the lock is held only by a thread that is
\*      between the two ends of the `with` block of irc_send, and every thread
\*      inside irc_send can either take its next step or waits for a holder
\*      of the lock that can take its own; so every irc_send, from the
\*      on_message callback, from a job or from a host thread, completes.
C38_SendNeverDeadlocks ==
    /\ writing_lock.owner # "none" => HoldsLock(writing_lock.owner)
    /\ \A t \in Threads :
          InIrcSend(t) =>
             \/ ENABLED irc_send(t)
             \/ /\ writing_lock.owner \notin {"none", t}
                /\ ENABLED irc_send(writing_lock.owner)

\* The job holds the lock in the middle of its PING while the on_message
\* callback and a host thread both wait for it.
C38_Witness ==
    /\ pc[Sched] = "is_write"
    /\ writing_lock.owner = Sched
    /\ pc[Loop] = "is_lock"
    /\ pc["h1"] = "is_lock"
    /\ NoteCount("on_message") = 1

\* ---------------------------------------------------------------------------
\* The server's ERROR message: the bot, which may have quit, hands it to
\* on_irc_error in the event loop.

\* bot.quit(): the bot marks that it has quit.
bot_quit ==
    /\ ~hasquit
    /\ hasquit' = TRUE
    /\ UNCHANGED << buffer, last_event_at, last_ping_at, server_timeout, ping_interval,
                    transport, connected, scheduler, sock, out, lost, writing_lock,
                    pc, local, budget, raised, calls, notes, now, stream, lastData,
                    begun, tls, given, plugins, timers >>

\* The ERROR messages handed to on_irc_error that went on to close.
IrcErrorsClosed == Cardinality({i \in 1..Len(calls) : calls[i] = "on_irc_error"})

\* An on_irc_error that closes whether the bot has quit or not.
on_irc_error_always ==
    /\ pc[Loop] = "idle"
    /\ IrcErrorsClosed < NoteCount("on_message")
    /\ discard_buffers
    /\ call_handle_close(Loop, "on_irc_error")
    /\ UNCHANGED << last_event_at, last_ping_at, server_timeout, ping_interval,
                    transport, connected, scheduler, sock, out, lost, writing_lock,
                    budget, raised, notes, now, stream, lastData, begun, tls,
                    given, plugins, timers, hasquit >>

\* on_irc_error(pretrigger), for a message that was delivered:
\* if self.bot.hasquit: self.discard_buffers(); self.handle_close()
on_irc_error ==
    /\ pc[Loop] = "idle"
    /\ IrcErrorsClosed < NoteCount("on_message")
    /\ IF hasquit
       THEN /\ discard_buffers
            /\ call_handle_close(Loop, "on_irc_error")
       ELSE UNCHANGED << buffer, pc, local, calls >>
    /\ UNCHANGED << last_event_at, last_ping_at, server_timeout, ping_interval,
                    transport, connected, scheduler, sock, out, lost, writing_lock,
                    budget, raised, notes, now, stream, lastData, begun, tls,
                    given, plugins, timers, hasquit >>

NextIrcError ==
    \/ initiate_connect
    \/ connection_made
    \/ ic_resume
    \/ ic_except
    \/ receive(LifeChunks, MaxLife)
    \/ bot_quit
    \/ on_irc_error
    \/ peer_closes
    \/ connection_lost
    \/ send_ping
    \/ sp_mark
    \/ irc_send(Sched)
    \/ check_timeout
    \/ \E t \in {Loop, Sched} : handle_close(t)
    \/ tick

SpecIrcError == Init /\ [][NextIrcError]_vars

\* The step is on_irc_error going on to close the connection.
IrcErrorCloses ==
    /\ pc[Loop] = "idle"
    /\ pc'[Loop] = "hc_stop"
    /\ local'[Loop].caller = "on_irc_error"

\* C39  on_irc_error discards the buffer and calls the close exactly when the
\*      bot has quit; when it has not, the call changes nothing: connection
\*      state, transport, buffer and scheduler stay as they are and nothing
\*      is signalled.
C39_IrcErrorClosesIffQuit ==
    [][/\ IrcErrorCloses => (hasquit /\ buffer' = <<>> /\ notes' = notes)
       /\ (on_irc_error /\ hasquit) => IrcErrorCloses
       /\ (on_irc_error /\ ~hasquit) => UNCHANGED vars]_vars

\* The bot had quit when the server's ERROR came: on_irc_error has closed the
\* connection, and on_close followed the message.
C39_Witness ==
    /\ hasquit
    /\ calls = << "on_irc_error" >>
    /\ buffer = <<>>
    /\ ~connected
    /\ ~transport
    /\ ~scheduler
    /\ NoteCount("on_message") = 1
    /\ notes[Len(notes)].kind = "on_close"

=============================================================================
